---- MODULE Spec2Model ----
(***************************************************************************)
(* A model of src/server.js, the Express server of "The Most Expensive     *)
(* Button": the in-memory ledger (projectData), the admin configuration,   *)
(* the admin bearer tokens and the route handlers that read and write them.*)
(*                                                                         *)
(* Node runs every handler to completion on one thread, so a handler       *)
(* without an await is one action.  The only asynchronous part of a        *)
(* webhook delivery is the reading of its body by express.raw, before the  *)
(* handler runs; SpecConcurrent models deliveries that are in flight at    *)
(* the same time.                                                          *)
(***************************************************************************)
EXTENDS Integers, Sequences, FiniteSets, TLC

VARIABLES
    projectData,   \* src/server.js:13  the ledger
    adminConfig,   \* src/server.js:21  credentials and settings
    adminTokens,   \* src/server.js:32  a JS Set: its elements in insertion order
    issued,        \* number of tokens minted so far (tokens are fresh: random + clock)
    res,           \* the response to the request handled last
    pending,       \* webhook deliveries whose body is being read (in flight)
    handled,       \* history (SpecConcurrent): the deliveries in the order their handlers ran
    ledger0,       \* history (SpecConcurrent): the ledger before the first of them
    effects,       \* what the handler that ran last wrote to the console and asked of Stripe
    revokedUpTo    \* history: the number of tokens minted before the last change of credentials

vars == <<projectData, adminConfig, adminTokens, issued, res, pending, handled, ledger0,
          effects, revokedUpTo>>

----------------------------------------------------------------------------
(* Bounds                                                                  *)

MaxClicks == 4     \* webhook handlers run while totalClicks < MaxClicks
MaxLogins == 2     \* tokens minted
MaxPending == 2    \* deliveries in flight at once
MaxHandled == 2    \* deliveries handled in SpecConcurrent
MaxIssued == 7     \* tokens minted in SpecTokens, more than the 5 the set keeps

----------------------------------------------------------------------------
(* JavaScript numbers: an integer or NaN.  Strings that the code parses    *)
(* are sequences of one-character strings.                                 *)

Num(n) == [nan |-> FALSE, v |-> n]
NaN == [nan |-> TRUE, v |-> 0]

\* a + b
JsAdd(a, b) == IF a.nan \/ b.nan THEN NaN ELSE Num(a.v + b.v)
\* a * b
JsMul(a, b) == IF a.nan \/ b.nan THEN NaN ELSE Num(a.v * b.v)
\* a >= b : every comparison with NaN is false
JsGe(a, b) == ~a.nan /\ ~b.nan /\ a.v >= b.v

Digit == {"0", "1", "2", "3", "4", "5", "6", "7", "8", "9"}
DigitVal == ("0" :> 0) @@ ("1" :> 1) @@ ("2" :> 2) @@ ("3" :> 3) @@ ("4" :> 4) @@
            ("5" :> 5) @@ ("6" :> 6) @@ ("7" :> 7) @@ ("8" :> 8) @@ ("9" :> 9)
DigitChar == <<"0", "1", "2", "3", "4", "5", "6", "7", "8", "9">>

RECURSIVE SkipWhite(_)
SkipWhite(s) == IF Len(s) > 0 /\ Head(s) = " " THEN SkipWhite(Tail(s)) ELSE s

RECURSIVE ParseDigits(_, _)
ParseDigits(s, acc) ==
    IF Len(s) = 0 \/ Head(s) \notin Digit THEN acc
    ELSE ParseDigits(Tail(s), acc * 10 + DigitVal[Head(s)])

\* parseInt(s), radix 10: leading white space, an optional sign, then the
\* longest run of digits; NaN when there is no digit.
parseInt(s) ==
    LET t == SkipWhite(s)
        signed == Len(t) > 0 /\ Head(t) \in {"+", "-"}
        u == IF signed THEN Tail(t) ELSE t
    IN  IF Len(u) = 0 \/ Head(u) \notin Digit THEN NaN
        ELSE IF signed /\ Head(t) = "-" THEN Num(0 - ParseDigits(u, 0))
        ELSE Num(ParseDigits(u, 0))

RECURSIVE NatToString(_)
NatToString(n) ==
    IF n < 10 THEN <<DigitChar[n + 1]>>
    ELSE NatToString(n \div 10) \o <<DigitChar[(n % 10) + 1]>>

\* Number.prototype.toString() of an integer
toString(n) == IF n < 0 THEN <<"-">> \o NatToString(0 - n) ELSE NatToString(n)

\* JSON.stringify of a number: NaN is written as null
JsonNumber(x) == IF x.nan THEN <<"n", "u", "l", "l">> ELSE toString(x.v)

----------------------------------------------------------------------------
(* Tables                                                                  *)

Currencies == {"BRL", "USD", "EUR", "GBP", "JPY", "CAD", "AUD", "CHF", "MXN"}

PRICE_IDS == [c \in Currencies |->
    CASE c = "BRL" -> "price_1RupyW7hbmQxAWthDISrdEUV"
      [] c = "USD" -> "price_1RuveS7hbmQxAWthvgdy1PME"
      [] c = "EUR" -> "price_1RuvfN7hbmQxAWthWkPgcVEs"
      [] c = "GBP" -> "price_1RuvkX7hbmQxAWthaVVKQ5Vq"
      [] c = "JPY" -> "price_1RuvmD7hbmQxAWthNkg0uyyU"
      [] c = "CAD" -> "price_1RuvrY7hbmQxAWthdafnau9n"
      [] c = "AUD" -> "price_1RuvsP7hbmQxAWthXJDYOvNA"
      [] c = "CHF" -> "price_1Ruvsq7hbmQxAWthjt9hlR3v"
      [] c = "MXN" -> "price_1RuvtH7hbmQxAWthKLMNpqrS"]

CURRENCY_AMOUNTS == [c \in Currencies |->
    CASE c = "JPY" -> 150
      [] c = "MXN" -> 2000
      [] OTHER -> 100]

EuroCountries == {"DE", "FR", "IT", "ES", "NL", "BE", "AT", "PT", "IE", "FI",
                  "GR", "LU", "MT", "CY", "SK", "SI", "EE", "LV", "LT"}
MappedCountries == EuroCountries \cup {"BR", "US", "GB", "JP", "CA", "AU", "CH", "MX"}

COUNTRY_CURRENCY_MAP == [c \in MappedCountries |->
    CASE c = "BR" -> "BRL"
      [] c = "US" -> "USD"
      [] c = "GB" -> "GBP"
      [] c = "JP" -> "JPY"
      [] c = "CA" -> "CAD"
      [] c = "AU" -> "AUD"
      [] c = "CH" -> "CHF"
      [] c = "MX" -> "MXN"
      [] OTHER -> "EUR"]

getCountryFromIP(ip) == "BR"

getCurrencyForCountry(country) ==
    IF country \in DOMAIN COUNTRY_CURRENCY_MAP THEN COUNTRY_CURRENCY_MAP[country]
    ELSE "USD"

----------------------------------------------------------------------------
(* Initial state                                                           *)

DefaultPix == "00020101021126580014br.gov.bcb.pix01366e42077e-6c9b-4a55-ba08-88660925fc9452040000530398654041.005802BR5923NICHOLAS RODRIGUES LEAL6009SAO PAULO622905251K3T2FRSJ124PDBG9EV21BG186304442A"

InitProjectData ==
    [totalClicks |-> Num(0),
     currentGoal |-> Num(1000000),
     totalRaised |-> Num(0),
     charityName |-> "Jocum"]

InitAdminConfig ==
    [username |-> "admin",
     password |-> "1234",
     amount |-> Num(100),
     donationPercent |-> Num(50),
     charityPhone |-> "",
     charityWebsite |-> "",
     charityPix |-> DefaultPix]

NoResponse == [status |-> 0, body |-> [none |-> TRUE]]

\* A handler that logs nothing and makes no call to Stripe
NoEffects == [console |-> <<>>, stripe |-> <<>>]

Init ==
    /\ projectData = InitProjectData
    /\ adminConfig = InitAdminConfig
    /\ adminTokens = <<>>
    /\ issued = 0
    /\ res = NoResponse
    /\ pending = <<>>
    /\ handled = <<>>
    /\ ledger0 = InitProjectData
    /\ effects = NoEffects
    /\ revokedUpTo = 0

----------------------------------------------------------------------------
(* Responses                                                               *)

Json(status, body) == [status |-> status, body |-> body]

Received == Json(200, [received |-> TRUE])
WebhookError == [status |-> 400, body |-> [text |-> "Webhook Error"]]
InternalServerError == Json(500, [error |-> "Internal server error"])

----------------------------------------------------------------------------
(* POST /webhook                                                           *)

\* Checkout sessions as create-checkout-session mints them: the metadata
\* carries CURRENCY_AMOUNTS[currency].toString()
SessionFor(id, currency) ==
    [id |-> id,
     metadata |-> [currency |-> currency,
                   amount |-> toString(CURRENCY_AMOUNTS[currency])]]

\* Sessions of the same payment account minted elsewhere: metadata without
\* an amount (the case line 177 defaults to '100'), and no metadata at all
SessionNoAmount == [id |-> "cs_noamount", metadata |-> [origin |-> "payment_link"]]
SessionNoMetadata == [id |-> "cs_nometadata"]

Sessions ==
    {SessionFor("cs_brl", "BRL"), SessionFor("cs_mxn", "MXN"),
     SessionNoAmount, SessionNoMetadata}

Completed(session) ==
    [type |-> "checkout.session.completed", data |-> [object |-> session]]

Events ==
    {Completed(s) : s \in Sessions} \cup
    {[type |-> "checkout.session.expired",
      data |-> [object |-> SessionFor("cs_brl", "BRL")]],
     [type |-> "payment_intent.succeeded", data |-> [object |-> [id |-> "pi_1"]]]}

\* A delivery: the event in the body, and whether the stripe-signature header
\* is a valid signature of that body under STRIPE_WEBHOOK_SECRET
WebhookRequests ==
    {[signatureOk |-> TRUE, event |-> e] : e \in Events} \cup
    {[signatureOk |-> FALSE, event |-> Completed(SessionFor("cs_brl", "BRL"))]}

\* Variant: the signature is not checked
constructEventUnchecked(req) == TRUE

\* stripe.webhooks.constructEvent returns the event, or throws
constructEvent(req) == req.signatureOk

\* Variant: every checkout.session.* event counts as a payment
isCheckoutSessionEvent(event) ==
    event.type \in {"checkout.session.completed", "checkout.session.expired"}

\* line 172: event.type === 'checkout.session.completed'
isCompleted(event) == event.type = "checkout.session.completed"

\* Variant: the click is not counted
countClickNever(pd) == pd

\* line 176: projectData.totalClicks += 1
countClick(pd) == [pd EXCEPT !.totalClicks = JsAdd(@, Num(1))]

\* line 177: session.metadata.amount || '100' (undefined and '' are falsy)
amountOrDefault(metadata) ==
    IF "amount" \in DOMAIN metadata /\ Len(metadata.amount) > 0
    THEN metadata.amount
    ELSE <<"1", "0", "0">>

\* line 177: projectData.totalRaised += parseInt(...)
addRaised(pd, metadata) ==
    [pd EXCEPT !.totalRaised = JsAdd(@, parseInt(amountOrDefault(metadata)))]

\* Variant: the goal doubles only when it is exceeded (> for >=)
doubleGoalIfExceeded(pd) ==
    IF ~pd.totalRaised.nan /\ ~pd.currentGoal.nan /\ pd.totalRaised.v > pd.currentGoal.v
    THEN [pd EXCEPT !.currentGoal = JsMul(@, Num(2))]
    ELSE pd

\* Variant: the counters are reset when the goal doubles
doubleGoalAndReset(pd) ==
    IF JsGe(pd.totalRaised, pd.currentGoal)
    THEN [pd EXCEPT !.currentGoal = JsMul(@, Num(2)),
                    !.totalClicks = Num(0), !.totalRaised = Num(0)]
    ELSE pd

\* lines 180-182: double the goal when reached
doubleGoalIfReached(pd) ==
    IF JsGe(pd.totalRaised, pd.currentGoal)
    THEN [pd EXCEPT !.currentGoal = JsMul(@, Num(2))]
    ELSE pd

\* session.metadata.amount of a session without metadata throws a TypeError
throwsTypeError(event) == isCompleted(event) /\ "metadata" \notin DOMAIN event.data.object

\* The response: 400 from the catch of constructEvent (lines 167-170); 500
\* from the error middleware (lines 301-304), to which Express hands the
\* TypeError; else line 191
webhookResponse(req) ==
    IF ~constructEvent(req) THEN WebhookError
    ELSE IF throwsTypeError(req.event) THEN InternalServerError
    ELSE Received

\* The ledger the handler leaves (lines 172-182).  The TypeError is thrown
\* in line 177, after line 176 has counted the click.
webhookLedger(pd, req) ==
    IF ~constructEvent(req) \/ ~isCompleted(req.event) THEN pd
    ELSE IF throwsTypeError(req.event) THEN countClick(pd)
    ELSE doubleGoalIfReached(addRaised(countClick(pd), req.event.data.object.metadata))

\* What the handler writes to the console: console.error in the catch (line
\* 168) and in the error middleware (line 302), console.log after a payment
\* (lines 184-188)
webhookConsole(pd, req) ==
    IF ~constructEvent(req)
    THEN <<[level |-> "error", text |-> "Webhook signature verification failed:"]>>
    ELSE IF ~isCompleted(req.event) THEN <<>>
    ELSE IF throwsTypeError(req.event)
    THEN <<[level |-> "error", text |-> "Unhandled error:"]>>
    ELSE <<[level |-> "log", text |-> "Payment successful:",
            clicks |-> webhookLedger(pd, req).totalClicks,
            goal |-> webhookLedger(pd, req).currentGoal,
            raised |-> webhookLedger(pd, req).totalRaised]>>

HandleWebhook(req) ==
    /\ projectData.totalClicks.v < MaxClicks
    /\ res' = webhookResponse(req)
    /\ projectData' = webhookLedger(projectData, req)
    /\ effects' = [console |-> webhookConsole(projectData, req), stripe |-> <<>>]
    /\ UNCHANGED <<adminConfig, adminTokens, issued, revokedUpTo>>

\* A delivery handled with no other delivery in flight
Webhook(req) ==
    /\ HandleWebhook(req)
    /\ UNCHANGED <<pending, handled, ledger0>>

----------------------------------------------------------------------------
(* GET /api/status, POST /api/create-checkout-session                      *)

StatusBody ==
    [totalClicks |-> JsonNumber(projectData.totalClicks),
     currentGoal |-> JsonNumber(projectData.currentGoal),
     totalRaised |-> JsonNumber(projectData.totalRaised),
     charityName |-> projectData.charityName,
     currency |-> getCurrencyForCountry(getCountryFromIP("ip")),
     amount |-> JsonNumber(adminConfig.amount),
     country |-> getCountryFromIP("ip"),
     donationPercent |-> JsonNumber(adminConfig.donationPercent),
     charityPhone |-> adminConfig.charityPhone,
     charityWebsite |-> adminConfig.charityWebsite,
     charityPix |-> adminConfig.charityPix]

\* Variant: the status route counts its own calls as clicks
StatusCounted ==
    /\ projectData.totalClicks.v < MaxClicks
    /\ res' = Json(200, StatusBody)
    /\ projectData' = [projectData EXCEPT !.totalClicks = JsAdd(@, Num(1))]
    /\ effects' = NoEffects
    /\ UNCHANGED <<adminConfig, adminTokens, issued, pending, handled, ledger0, revokedUpTo>>

Status ==
    /\ res' = Json(200, StatusBody)
    /\ effects' = NoEffects
    /\ UNCHANGED <<projectData, adminConfig, adminTokens, issued, pending, handled, ledger0,
                   revokedUpTo>>

CheckoutBodies == {[currency |-> "BRL"], [currency |-> "MXN"], [currency |-> "XXX"],
                   [country |-> "BR"]}

\* body('currency').isIn(Object.keys(PRICE_IDS))
validCurrency(body) == "currency" \in DOMAIN body /\ body.currency \in DOMAIN PRICE_IDS

\* lines 131-135: the price of the currency, if PRICE_IDS has one
hasPrice(body) == "currency" \in DOMAIN body /\ body.currency \in DOMAIN PRICE_IDS

\* lines 137-151: the session asked of Stripe
sessionParams(currency) ==
    [price |-> PRICE_IDS[currency],
     quantity |-> 1,
     metadata |-> [currency |-> currency, amount |-> toString(CURRENCY_AMOUNTS[currency])],
     locale |-> IF currency = "BRL" THEN "pt-BR" ELSE "auto"]

\* Variant: the session is created before the request is validated
checkoutCallsEager(body) ==
    <<IF hasPrice(body) THEN sessionParams(body.currency) ELSE [quantity |-> 1]>>

\* The calls of stripe.checkout.sessions.create the handler makes: none when
\* it returns in line 127 or in line 134
checkoutCalls(body) ==
    IF validCurrency(body) /\ hasPrice(body) THEN <<sessionParams(body.currency)>> ELSE <<>>

\* gatewayOk: whether stripe.checkout.sessions.create resolves
checkoutResponse(body, gatewayOk) ==
    IF ~validCurrency(body) THEN Json(400, [error |-> "Invalid request data"])
    ELSE IF ~hasPrice(body) THEN Json(400, [error |-> "Currency not supported"])
    ELSE IF ~gatewayOk THEN Json(500, [error |-> "Failed to create checkout session"])
    ELSE Json(200, [url |-> PRICE_IDS[body.currency]])

\* line 155: console.error in the catch
checkoutConsole(body, gatewayOk) ==
    IF Len(checkoutCalls(body)) > 0 /\ ~gatewayOk
    THEN <<[level |-> "error", text |-> "Error creating checkout session:"]>>
    ELSE <<>>

CreateCheckoutSession(body, gatewayOk) ==
    /\ res' = checkoutResponse(body, gatewayOk)
    /\ effects' = [console |-> checkoutConsole(body, gatewayOk), stripe |-> checkoutCalls(body)]
    /\ UNCHANGED <<projectData, adminConfig, adminTokens, issued, pending, handled, ledger0,
                   revokedUpTo>>

----------------------------------------------------------------------------
(* Admin routes                                                            *)

Range(seq) == {seq[i] : i \in 1..Len(seq)}

\* Request headers: no Authorization header, another scheme, a Bearer token
\* that was minted (1..issued) or one that never was (0)
Headers ==
    {[host |-> "h"], [host |-> "h", authorization |-> [scheme |-> "Basic", token |-> 1]]} \cup
    {[host |-> "h", authorization |-> [scheme |-> "Bearer", token |-> t]] : t \in 0..MaxLogins}

\* Variant: the scheme of the Authorization header is not looked at
authenticateAnyScheme(headers) ==
    IF "authorization" \notin DOMAIN headers
    THEN Json(401, [error |-> "Unauthorized"])
    ELSE IF headers.authorization.token \notin Range(adminTokens)
    THEN Json(401, [error |-> "Invalid token"])
    ELSE [status |-> 0, body |-> [next |-> TRUE]]

\* authenticateAdmin: the 401 response, or next()
authenticateAdmin(headers) ==
    IF "authorization" \notin DOMAIN headers \/ headers.authorization.scheme # "Bearer"
    THEN Json(401, [error |-> "Unauthorized"])
    ELSE IF headers.authorization.token \notin Range(adminTokens)
    THEN Json(401, [error |-> "Invalid token"])
    ELSE [status |-> 0, body |-> [next |-> TRUE]]

Authorized(headers) == authenticateAdmin(headers).status = 0

LoginBodies ==
    {[username |-> "admin", password |-> "1234"],
     [username |-> "admin", password |-> "0000"],
     [username |-> "root", password |-> "s3cret"],
     [username |-> "admin"]}

credentialsMatch(body) ==
    /\ "username" \in DOMAIN body /\ body.username = adminConfig.username
    /\ "password" \in DOMAIN body /\ body.password = adminConfig.password

\* Variant: slice(0, 5), which keeps the first 5
addTokenKeepFirst(tokens, token) ==
    LET added == IF token \in Range(tokens) THEN tokens ELSE Append(tokens, token)
    IN  IF Len(added) > 5 THEN SubSeq(added, 1, 5) ELSE added

\* Set.add, then keep only the last 5
addToken(tokens, token) ==
    LET added == IF token \in Range(tokens) THEN tokens ELSE Append(tokens, token)
    IN  IF Len(added) > 5 THEN SubSeq(added, Len(added) - 4, Len(added)) ELSE added

\* The handler of POST /api/admin/login; the token minted is the next
\* number, so every token is new
HandleLogin(body) ==
    /\ IF credentialsMatch(body)
       THEN /\ issued' = issued + 1
            /\ adminTokens' = addToken(adminTokens, issued + 1)
            /\ res' = Json(200, [token |-> issued + 1, message |-> "Login successful"])
       ELSE /\ res' = Json(401, [error |-> "Invalid credentials"])
            /\ UNCHANGED <<adminTokens, issued>>
    /\ effects' = NoEffects
    /\ UNCHANGED <<projectData, adminConfig, pending, handled, ledger0, revokedUpTo>>

Login(body) ==
    /\ issued < MaxLogins
    /\ HandleLogin(body)

\* {...projectData, ...adminConfig, password: undefined}: JSON drops password
SettingsBody ==
    [totalClicks |-> JsonNumber(projectData.totalClicks),
     currentGoal |-> JsonNumber(projectData.currentGoal),
     totalRaised |-> JsonNumber(projectData.totalRaised),
     charityName |-> projectData.charityName,
     username |-> adminConfig.username,
     amount |-> JsonNumber(adminConfig.amount),
     donationPercent |-> JsonNumber(adminConfig.donationPercent),
     charityPhone |-> adminConfig.charityPhone,
     charityWebsite |-> adminConfig.charityWebsite,
     charityPix |-> adminConfig.charityPix]

GetSettings(headers) ==
    /\ res' = IF Authorized(headers) THEN Json(200, SettingsBody)
              ELSE authenticateAdmin(headers)
    /\ effects' = NoEffects
    /\ UNCHANGED <<projectData, adminConfig, adminTokens, issued, pending, handled, ledger0,
                   revokedUpTo>>

\* Bodies of POST /api/admin/settings; numeric fields are given as the text
\* parseInt sees (String(value))
SettingsBodies ==
    {[currentGoal |-> <<"3", "0", "0">>],
     [currentGoal |-> <<"0">>],
     [charityName |-> "Unicef", donationPercent |-> <<"3", "0">>,
      amount |-> <<"2", "5", "0">>, charityPhone |-> "+55 11 5555",
      charityWebsite |-> "https://unicef.org", charityPix |-> "pix-unicef"],
     [charityName |-> "", donationPercent |-> <<"1", "5", "0">>,
      currentGoal |-> <<"a", "b", "c">>],
     [newUsername |-> "root", newPassword |-> "s3cret"],
     [newUsername |-> "root"]}

\* newUsername && newPassword
changesCredentials(body) ==
    /\ "newUsername" \in DOMAIN body /\ body.newUsername # ""
    /\ "newPassword" \in DOMAIN body /\ body.newPassword # ""

settingsProjectData(pd, body) ==
    [pd EXCEPT
       !.currentGoal = IF "currentGoal" \in DOMAIN body THEN parseInt(body.currentGoal) ELSE @,
       !.charityName = IF "charityName" \in DOMAIN body THEN body.charityName ELSE @]

settingsAdminConfig(cfg, body) ==
    [cfg EXCEPT
       !.amount = IF "amount" \in DOMAIN body THEN parseInt(body.amount) ELSE @,
       !.donationPercent =
           IF "donationPercent" \in DOMAIN body THEN parseInt(body.donationPercent) ELSE @,
       !.charityPhone = IF "charityPhone" \in DOMAIN body THEN body.charityPhone ELSE @,
       !.charityWebsite = IF "charityWebsite" \in DOMAIN body THEN body.charityWebsite ELSE @,
       !.charityPix = IF "charityPix" \in DOMAIN body THEN body.charityPix ELSE @,
       !.username = IF changesCredentials(body) THEN body.newUsername ELSE @,
       !.password = IF changesCredentials(body) THEN body.newPassword ELSE @]

\* Variant: the tokens survive a change of credentials
settingsTokensKept(tokens, body) == tokens

\* adminTokens.clear() when the credentials change
settingsTokens(tokens, body) == IF changesCredentials(body) THEN <<>> ELSE tokens

UpdateSettings(headers, body) ==
    /\ IF Authorized(headers)
       THEN /\ projectData' = settingsProjectData(projectData, body)
            /\ adminConfig' = settingsAdminConfig(adminConfig, body)
            /\ adminTokens' = settingsTokens(adminTokens, body)
            /\ revokedUpTo' = IF changesCredentials(body) THEN issued ELSE revokedUpTo
            /\ res' = Json(200, [message |-> "Settings updated successfully"])
       ELSE /\ res' = authenticateAdmin(headers)
            /\ UNCHANGED <<projectData, adminConfig, adminTokens, revokedUpTo>>
    /\ effects' = NoEffects
    /\ UNCHANGED <<issued, pending, handled, ledger0>>

\* Variant: the reset clears the counters as well
resetProjectDataAll(pd) ==
    [pd EXCEPT !.totalClicks = Num(0), !.totalRaised = Num(0),
               !.currentGoal = Num(1000000), !.charityName = "Jocum"]

resetProjectData(pd) ==
    [pd EXCEPT !.currentGoal = Num(1000000), !.charityName = "Jocum"]

resetAdminConfig(cfg) ==
    [cfg EXCEPT !.amount = Num(100), !.donationPercent = Num(50), !.charityPhone = "",
                !.charityWebsite = "", !.charityPix = DefaultPix]

Reset(headers) ==
    /\ IF Authorized(headers)
       THEN /\ projectData' = resetProjectData(projectData)
            /\ adminConfig' = resetAdminConfig(adminConfig)
            /\ res' = Json(200, [message |-> "Settings reset to defaults"])
       ELSE /\ res' = authenticateAdmin(headers)
            /\ UNCHANGED <<projectData, adminConfig>>
    /\ effects' = NoEffects
    /\ UNCHANGED <<adminTokens, issued, pending, handled, ledger0, revokedUpTo>>

----------------------------------------------------------------------------
(* The server: requests handled one after another                          *)

Next ==
    \/ Status
    \/ \E body \in CheckoutBodies, gatewayOk \in BOOLEAN : CreateCheckoutSession(body, gatewayOk)
    \/ \E req \in WebhookRequests : Webhook(req)
    \/ \E body \in LoginBodies : Login(body)
    \/ \E headers \in Headers : GetSettings(headers)
    \/ \E headers \in Headers, body \in SettingsBodies : UpdateSettings(headers, body)
    \/ \E headers \in Headers : Reset(headers)

Spec == Init /\ [][Next]_vars

----------------------------------------------------------------------------
(* The token set over many logins: logins, requests that present a token   *)
(* and changes of credentials                                              *)

Bearer(token) == [host |-> "h", authorization |-> [scheme |-> "Bearer", token |-> token]]

TokenHeaders == {Bearer(t) : t \in 0..MaxIssued}

CredentialBodies == {body \in SettingsBodies : "newUsername" \in DOMAIN body}

LoginAgain(body) ==
    /\ issued < MaxIssued
    /\ HandleLogin(body)

NextTokens ==
    \/ \E body \in LoginBodies : LoginAgain(body)
    \/ \E headers \in TokenHeaders : GetSettings(headers)
    \/ \E headers \in TokenHeaders, body \in CredentialBodies : UpdateSettings(headers, body)

SpecTokens == Init /\ [][NextTokens]_vars

----------------------------------------------------------------------------
(* Webhook deliveries in flight at the same time.  express.raw reads each  *)
(* body asynchronously, so deliveries that overlap reach the handler in    *)
(* any order; each handler then runs to completion (it has no await).      *)

\* The goal is the default one, or one an administrator has set before the
\* deliveries arrive (Login, then UpdateSettings with currentGoal 300)
GoalSetByAdmin ==
    /\ projectData = [InitProjectData EXCEPT !.currentGoal = Num(300)]
    /\ adminConfig = InitAdminConfig
    /\ adminTokens = <<1>>
    /\ issued = 1
    /\ res = Json(200, [message |-> "Settings updated successfully"])
    /\ pending = <<>>
    /\ handled = <<>>
    /\ effects = NoEffects
    /\ revokedUpTo = 0

InitConcurrent ==
    /\ Init \/ GoalSetByAdmin
    /\ ledger0 = projectData

\* The deliveries that overlap: the payments of 100 and of 2000, the session
\* without metadata, an event of another type and a forged delivery
InFlightRequests ==
    {req \in WebhookRequests :
        req.event.data.object.id \in {"cs_brl", "cs_mxn", "cs_nometadata"}}

Receive(req) ==
    /\ Len(pending) < MaxPending
    /\ pending' = Append(pending, req)
    /\ UNCHANGED <<projectData, adminConfig, adminTokens, issued, res, handled, ledger0,
                   effects, revokedUpTo>>

RemoveAt(seq, i) == SubSeq(seq, 1, i - 1) \o SubSeq(seq, i + 1, Len(seq))

\* What the history keeps of a delivery: the request, and whether another
\* delivery was in flight when its handler ran
Entry(req) == [req |-> req, overlapped |-> Len(pending) > 1]

\* Variant: the handlers of all deliveries in flight start from the same
\* ledger and the i-th writes last (a read-modify-write across an await)
RunLastWriteWins(i) ==
    /\ i \in 1..Len(pending)
    /\ Len(handled) < MaxHandled
    /\ HandleWebhook(pending[i])
    /\ pending' = <<>>
    /\ handled' = handled \o [k \in 1..(Len(pending) - 1) |-> Entry(RemoveAt(pending, i)[k])]
                          \o <<Entry(pending[i])>>
    /\ UNCHANGED ledger0

\* The handler of the i-th delivery in flight runs
Run(i) ==
    /\ i \in 1..Len(pending)
    /\ Len(handled) < MaxHandled
    /\ HandleWebhook(pending[i])
    /\ pending' = RemoveAt(pending, i)
    /\ handled' = Append(handled, Entry(pending[i]))
    /\ UNCHANGED ledger0

NextConcurrent ==
    \/ \E req \in InFlightRequests : Receive(req)
    \/ \E i \in 1..MaxPending : Run(i)

SpecConcurrent == InitConcurrent /\ [][NextConcurrent]_vars

----------------------------------------------------------------------------
(* Properties of POST /webhook                                             *)

\* A delivery that passes verification and carries a completed session
VerifiedCompleted(req) == req.signatureOk /\ req.event.type = "checkout.session.completed"

\* ... whose amount the handler adds to totalRaised (line 177 runs)
AmountAdded(req) == VerifiedCompleted(req) /\ "metadata" \in DOMAIN req.event.data.object

\* The amount such a delivery carries
EventAmount(req) == parseInt(amountOrDefault(req.event.data.object.metadata))

\* totalRaised after the step has reached the goal the step started with
ReachesGoal == JsGe(projectData'.totalRaised, projectData.currentGoal)

\* C1: every verified checkout.session.completed delivery that does not reach
\* the goal adds exactly 1 to totalClicks and leaves currentGoal as it was;
\* so N such deliveries in a row add N and keep the goal.
C1_ClicksCountDeliveries ==
    [][\A req \in WebhookRequests :
         (VerifiedCompleted(req) /\ Webhook(req) /\ ~ReachesGoal)
         => /\ projectData'.totalClicks = Num(projectData.totalClicks.v + 1)
            /\ projectData'.currentGoal = projectData.currentGoal]_vars

\* Three deliveries were counted with the default goal still ahead
C1_Witness ==
    /\ res = Received
    /\ projectData.totalClicks = Num(3)
    /\ projectData.totalRaised.v >= 300
    /\ projectData.currentGoal = Num(1000000)

\* C2: when a confirmed payment brings totalRaised to or above currentGoal,
\* currentGoal after the event is exactly twice its value before the event
\* (one doubling per event, whatever the size of the goal).
C2_GoalDoublesOnce ==
    [][\A req \in WebhookRequests :
         (AmountAdded(req) /\ Webhook(req) /\ ReachesGoal)
         => /\ ~projectData.currentGoal.nan
            /\ projectData'.currentGoal = Num(2 * projectData.currentGoal.v)]_vars

\* The third payment of 100 met a goal of 300 exactly, and the goal is now 600
C2_Witness ==
    /\ res = Received
    /\ projectData.totalClicks = Num(3)
    /\ projectData.totalRaised = Num(300)
    /\ projectData.currentGoal = Num(600)

C4_BadSignatureRejected ==
    [][\A req \in WebhookRequests :
         (~req.signatureOk /\ Webhook(req))
         => /\ projectData' = projectData
            /\ res'.status = 400]_vars

\* A forged delivery was turned away after two payments had been counted
C4_Witness ==
    /\ res = WebhookError
    /\ projectData.totalClicks = Num(2)

\* C5 as stated: a verified checkout.session.completed event that is
\* delivered again (same session id) is not applied a second time: the
\* ledger stays as it is.
DeliveredBefore(req) ==
    \E k \in 1..Len(handled) :
        /\ VerifiedCompleted(handled[k].req)
        /\ handled[k].req.event.data.object.id = req.event.data.object.id

C5_ReplayNotApplied ==
    [][\A i \in 1..MaxPending :
         (/\ i <= Len(pending)
          /\ VerifiedCompleted(pending[i])
          /\ DeliveredBefore(pending[i])
          /\ Run(i))
         => projectData' = projectData]_vars

\* a < b
JsLt(a, b) == ~a.nan /\ ~b.nan /\ a.v < b.v

\* C6 as stated: in every reachable state the metric compared against the
\* goal, totalRaised, is strictly below currentGoal.
C6_RaisedBelowGoal == JsLt(projectData.totalRaised, projectData.currentGoal)

\* C7 as stated: in every reachable state totalClicks is a non-negative
\* integer, currentGoal a positive integer and totalRaised a non-negative
\* number.
C7_LedgerRanges ==
    /\ ~projectData.totalClicks.nan /\ projectData.totalClicks.v >= 0
    /\ ~projectData.currentGoal.nan /\ projectData.currentGoal.v > 0
    /\ ~projectData.totalRaised.nan /\ projectData.totalRaised.v >= 0

\* The ledger after the deliveries of a sequence, handled one after another
RECURSIVE SerialLedger(_, _)
SerialLedger(pd, entries) ==
    IF Len(entries) = 0 THEN pd
    ELSE SerialLedger(webhookLedger(pd, Head(entries).req), Tail(entries))

Counted(entries) == Cardinality({k \in 1..Len(entries) : VerifiedCompleted(entries[k].req)})

\* C8: however deliveries overlap, the ledger is the one that handling the
\* same deliveries one after another, in the order their handlers ran, gives:
\* no click is lost and no goal transition is applied twice.
C8_DeliveriesSerialize ==
    /\ projectData = SerialLedger(ledger0, handled)
    /\ projectData.totalClicks = Num(ledger0.totalClicks.v + Counted(handled))

\* Two payments of 2000 were in flight together when the handler of the
\* first of them ran; both are counted and the goal of 300 has doubled once
\* for each
C8_Witness ==
    /\ Len(handled) = 2
    /\ handled[1].overlapped
    /\ projectData.totalClicks = Num(2)
    /\ projectData.totalRaised = Num(4000)
    /\ projectData.currentGoal = Num(1200)

\* C9: a verified event of a type other than checkout.session.completed is
\* answered 200 {received: true} and leaves the whole ledger (totalClicks,
\* totalRaised, currentGoal, charityName) as it was.
C9_OtherEventsIgnored ==
    [][\A req \in WebhookRequests :
         (req.signatureOk /\ req.event.type # "checkout.session.completed" /\ Webhook(req))
         => /\ res' = Received
            /\ projectData' = projectData]_vars

\* A verified delivery was acknowledged and the ledger is still the initial
\* one (a completed session would have counted a click)
C9_Witness ==
    /\ res = Received
    /\ projectData = InitProjectData

\* C10 as stated: a delivery whose signature verifies is answered
\* 200 {received: true} whatever it carries, and any other delivery 400.
C10_Only200Or400 ==
    [][\A req \in WebhookRequests :
         Webhook(req)
         => IF req.signatureOk THEN res' = Received ELSE res'.status = 400]_vars


----------------------------------------------------------------------------
(* Failures, notifications and the unit of the goal                        *)

\* C11 as stated: a webhook delivery or an admin settings update that ends in
\* an error response (status 400 or above) leaves totalClicks, totalRaised
\* and currentGoal as they were before the request.
C11_FailureKeepsLedger ==
    [][/\ \A req \in WebhookRequests :
            (webhookResponse(req).status >= 400 /\ Webhook(req))
            => projectData' = projectData
       /\ \A headers \in Headers, body \in SettingsBodies :
            (res'.status >= 400 /\ UpdateSettings(headers, body))
            => projectData' = projectData]_vars

\* The lines of a console that are DonationDue notifications: they carry a
\* charity name and a donation amount
DonationsDue(console) ==
    {i \in 1..Len(console) :
        {"charityName", "donationAmount"} \subseteq DOMAIN console[i]}

\* percent per cent of raised
PercentOf(raised, percent) ==
    IF raised.nan \/ percent.nan THEN NaN ELSE Num((raised.v * percent.v) \div 100)

\* C12 as stated: a confirmed payment that reaches the goal produces exactly
\* one DonationDue notification, carrying the current charityName and
\* donationAmount = totalRaised * donationPercent / 100; a confirmed payment
\* that does not reach the goal produces none.
C12_DonationDueAtGoal ==
    [][\A req \in WebhookRequests :
         (AmountAdded(req) /\ Webhook(req))
         => IF ReachesGoal
            THEN /\ Cardinality(DonationsDue(effects'.console)) = 1
                 /\ \A i \in DonationsDue(effects'.console) :
                      /\ effects'.console[i].charityName = projectData'.charityName
                      /\ effects'.console[i].donationAmount =
                             PercentOf(projectData'.totalRaised, adminConfig'.donationPercent)
            ELSE DonationsDue(effects'.console) = {}]_vars

\* C13 as stated: currentGoal doubles on the confirmed payment that brings
\* totalClicks up to currentGoal, and stays as it is on a confirmed payment
\* after which totalClicks is still below currentGoal.
C13_GoalCountsClicks ==
    [][\A req \in WebhookRequests :
         (AmountAdded(req) /\ Webhook(req))
         => IF JsGe(projectData'.totalClicks, projectData.currentGoal)
            THEN projectData'.currentGoal = JsMul(projectData.currentGoal, Num(2))
            ELSE projectData'.currentGoal = projectData.currentGoal]_vars

----------------------------------------------------------------------------
(* Properties of the admin overwrites and of the checkout route            *)

\* The text of a positive integer: digits only, not all of them 0
PositiveIntegerText(text) ==
    /\ Len(text) > 0
    /\ \A i \in 1..Len(text) : text[i] \in Digit
    /\ \E i \in 1..Len(text) : text[i] # "0"

\* A settings body one of whose overwrites is invalid: an empty charityName,
\* a currentGoal that is no positive integer, a donationPercent outside 0..100
InvalidOverwrite(body) ==
    \/ "charityName" \in DOMAIN body /\ body.charityName = ""
    \/ "currentGoal" \in DOMAIN body /\ ~PositiveIntegerText(body.currentGoal)
    \/ /\ "donationPercent" \in DOMAIN body
       /\ \/ parseInt(body.donationPercent).nan
          \/ parseInt(body.donationPercent).v \notin 0..100

\* C14 as stated: an authorized settings update with an invalid overwrite is
\* answered with a validation error (400) and leaves currentGoal, charityName
\* and donationPercent unchanged.
C14_OverwritesValidated ==
    [][\A headers \in Headers, body \in SettingsBodies :
         (InvalidOverwrite(body) /\ Authorized(headers) /\ UpdateSettings(headers, body))
         => /\ res'.status = 400
            /\ projectData'.currentGoal = projectData.currentGoal
            /\ projectData'.charityName = projectData.charityName
            /\ adminConfig'.donationPercent = adminConfig.donationPercent]_vars

\* The body names no currency of the price table
UnknownCurrency(body) == "currency" \notin DOMAIN body \/ body.currency \notin Currencies

\* C15: a POST /api/create-checkout-session whose currency is not a key of
\* the price table is answered 400, changes nothing of the ledger and makes
\* no call to Stripe.
C15_UnknownCurrencyRejected ==
    [][\A body \in CheckoutBodies, gatewayOk \in BOOLEAN :
         (UnknownCurrency(body) /\ CreateCheckoutSession(body, gatewayOk))
         => /\ res'.status = 400
            /\ projectData' = projectData
            /\ effects'.stripe = <<>>]_vars

\* A checkout request was refused after two payments had been counted, and
\* no session was asked of Stripe
C15_Witness ==
    /\ res = Json(400, [error |-> "Invalid request data"])
    /\ effects.stripe = <<>>
    /\ projectData.totalClicks = Num(2)


----------------------------------------------------------------------------
(* Properties of the admin gate, of the status route and of the reset      *)

\* A request to one of the three routes behind authenticateAdmin
AdminRequest(headers) ==
    \/ GetSettings(headers)
    \/ \E body \in SettingsBodies : UpdateSettings(headers, body)
    \/ Reset(headers)

\* C16: after a settings update that changed the credentials, a request that
\* presents a token minted before the change is answered 401 by GET and POST
\* /api/admin/settings and by POST /api/admin/reset and changes nothing, also
\* after later logins (which mint other tokens): every step is such an
\* answer, or is no admin request that presents such a token.
C16_OldTokensRejected ==
    [][\/ /\ res'.status = 401
          /\ UNCHANGED <<projectData, adminConfig, adminTokens>>
       \/ \A t \in 1..revokedUpTo : ~AdminRequest(Bearer(t))]_vars

\* Token 1 was minted, the credentials were changed, a login with the new
\* credentials minted token 2, and a request was answered 'Invalid token'
C16_Witness ==
    /\ revokedUpTo = 1
    /\ adminConfig.username = "root"
    /\ adminTokens = <<2>>
    /\ res = Json(401, [error |-> "Invalid token"])

\* The request carries a Bearer token that the token set holds
CarriesHeldToken(headers) ==
    /\ "authorization" \in DOMAIN headers
    /\ headers.authorization.scheme = "Bearer"
    /\ \E i \in 1..Len(adminTokens) : adminTokens[i] = headers.authorization.token

\* The body carries the current username and the current password
BothMatch(body) ==
    /\ {"username", "password"} \subseteq DOMAIN body
    /\ body.username = adminConfig.username
    /\ body.password = adminConfig.password

\* C17: an admin request that carries no token held in the token set is
\* answered 401 and changes neither the ledger, the configuration nor the
\* token set (every step is such an answer, or is no admin request of a
\* header without a held token); a token enters the set only by a login whose username and
\* password both match; a login that does not match is answered 401 and
\* mints no token.
C17_AdminGated ==
    [][/\ \/ /\ res'.status = 401
             /\ UNCHANGED <<projectData, adminConfig, adminTokens>>
          \/ \A headers \in Headers :
                CarriesHeldToken(headers) \/ ~AdminRequest(headers)
       /\ (adminTokens' # adminTokens /\ Range(adminTokens') \ Range(adminTokens) # {})
            => \E body \in LoginBodies : BothMatch(body) /\ Login(body)
       /\ \A body \in LoginBodies :
            (~BothMatch(body) /\ Login(body))
            => /\ res'.status = 401
               /\ UNCHANGED <<adminTokens, issued>>]_vars

\* A request without a Bearer token was refused while a token was held and a
\* payment had been counted
C17_Witness ==
    /\ res = Json(401, [error |-> "Unauthorized"])
    /\ adminTokens = <<1>>
    /\ projectData.totalClicks = Num(1)

\* A response of GET /api/status
IsStatusResponse(r) == r.status = 200 /\ "country" \in DOMAIN r.body

\* C18: GET /api/status changes nothing of the ledger, the configuration and
\* the tokens, and when the request before it was a GET /api/status too, its
\* response is the same.
C18_StatusPureRead ==
    [][(IsStatusResponse(res') /\ Status)
       => /\ UNCHANGED <<projectData, adminConfig, adminTokens, issued>>
          /\ IsStatusResponse(res) => res' = res]_vars

\* The status was read after two payments
C18_Witness ==
    /\ IsStatusResponse(res)
    /\ projectData.totalClicks = Num(2)
    /\ res.body.totalRaised = JsonNumber(projectData.totalRaised)

\* The token minted first among those the set holds
Oldest(tokens) == CHOOSE t \in Range(tokens) : \A u \in Range(tokens) : t <= u

\* C19: the token set never holds more than 5 tokens; the token a successful
\* login returns is in the set when the login responds; a login that finds 5
\* tokens evicts the one minted first and no other, and that token is
\* answered 401 from then on; a failed login leaves the set as it was.
C19_NewestFiveKept ==
    [][/\ Cardinality(Range(adminTokens')) <= 5
       /\ \A body \in LoginBodies :
            LoginAgain(body)
            => /\ res'.status = 200 => res'.body.token \in Range(adminTokens')
               /\ (res'.status = 200 /\ Len(adminTokens) = 5)
                    => /\ Range(adminTokens') =
                            (Range(adminTokens) \ {Oldest(adminTokens)}) \cup {res'.body.token}
                       /\ \A headers \in TokenHeaders :
                            headers.authorization.token = Oldest(adminTokens)
                            => (authenticateAdmin(headers).status = 401)'
               /\ res'.status = 401 => adminTokens' = adminTokens]_vars

\* The sixth login evicted token 1
C19_Witness ==
    /\ issued = 6
    /\ adminTokens = <<2, 3, 4, 5, 6>>
    /\ res = Json(200, [token |-> 6, message |-> "Login successful"])

\* What the claim says of the step of a reset
ResetAsClaimed ==
    /\ projectData'.currentGoal = Num(1000000)
    /\ projectData'.charityName = "Jocum"
    /\ adminConfig'.amount = Num(100)
    /\ adminConfig'.donationPercent = Num(50)
    /\ projectData'.totalClicks = projectData.totalClicks
    /\ projectData'.totalRaised = projectData.totalRaised
    /\ adminConfig'.username = adminConfig.username
    /\ adminConfig'.password = adminConfig.password
    /\ adminTokens' = adminTokens
    /\ resetProjectData(projectData') = projectData'
    /\ resetAdminConfig(adminConfig') = adminConfig'

\* C20: an authorized POST /api/admin/reset sets currentGoal to 1000000,
\* charityName to "Jocum", amount to 100 and donationPercent to 50, leaves
\* totalClicks, totalRaised, the username, the password and the token set as
\* they were, and a second reset changes nothing more: every step is as the
\* claim says, or is no authorized reset.
C20_ResetToDefaults ==
    [][\/ ResetAsClaimed
       \/ \A headers \in Headers : ~(Authorized(headers) /\ Reset(headers))]_vars

\* The reset ran after two payments; the counters are still there
C20_Witness ==
    /\ res = Json(200, [message |-> "Settings reset to defaults"])
    /\ projectData.totalClicks = Num(2)
    /\ projectData.totalRaised = Num(2100)
    /\ projectData.currentGoal = Num(1000000)

====
